---- MODULE Spec2Model ----
(***************************************************************************)
(* The AutoError derive macro (src/src/lib.rs) as a state machine.        *)
(*                                                                         *)
(* One expansion of derive() takes the declaration of an item and returns  *)
(* a token stream: either one compile_error item or the generated impls.   *)
(* Strings whose contents matter (format strings, rendered text) are       *)
(* sequences of one-character strings.                                     *)
(***************************************************************************)
EXTENDS Integers, Sequences, FiniteSets, TLC

\* input           the item derive() is given (lib.rs 193)
\* pc              where derive() is: "start", "collect" (lib.rs 202), "done"
\* idx             the position of enumdecl.variants.iter() (lib.rs 202)
\* error_variants  the ErrorVariant values collected so far (lib.rs 202)
\* result          what the last parse_variant call returned, with its local
\*                 result (lib.rs 104-156)
\* ret             the items of the TokenStream derive() returns
VARIABLES input, pc, idx, error_variants, result, ret

vars == <<input, pc, idx, error_variants, result, ret>>

\* ------------------------------------------------------------------ bounds
MaxFields == 2
MaxAttrs == 2
MaxArgs == 3
MaxVariants == 2

\* ------------------------------------------------------- syntax of the input
\* syn::Type: a type path with its segments, or any other kind of type.
PathTy(segs) == [kind |-> "Path", segments |-> segs]

IoError == PathTy(<<"std", "io", "Error">>)
FmtError == PathTy(<<"std", "fmt", "Error">>)
NotError == PathTy(<<"e3", "NotError">>)
StringTy == PathTy(<<"String">>)
IsizeTy == PathTy(<<"isize">>)
RefStr == [kind |-> "Reference", segments |-> <<>>]

\* syn::Field
Field(ty) == [ty |-> ty]

\* syn::Fields: Unit, Unnamed(list) or Named(list)
Fields(style, tys) == [style |-> style, list |-> [k \in 1..Len(tys) |-> Field(tys[k])]]

\* syn::Lit
LitBool(b) == [kind |-> "Bool", bool |-> b, str |-> <<>>]
LitStr(s) == [kind |-> "Str", bool |-> FALSE, str |-> s]
LitInt == [kind |-> "Int", bool |-> FALSE, str |-> <<>>]

\* syn::NestedMeta: a name = literal pair, another meta item, or a bare literal
NameValue(name, lit) == [form |-> "NameValue", name |-> name, lit |-> lit]
MetaPath(name) == [form |-> "Path", name |-> name, lit |-> LitInt]
NestedLit(lit) == [form |-> "Lit", name |-> "", lit |-> lit]

\* syn::Attribute, with what parse_meta() makes of it: "List", another kind
\* of meta ("Path"), or a parse error ("Err")
Attribute(path, meta, nested) == [path |-> path, meta |-> meta, nested |-> nested]
AutoError(nested) == Attribute("auto_error", "List", nested)
DocAttr == Attribute("doc", "NameValue", <<>>)

\* syn::Variant
Variant(ident, attrs, fields) == [ident |-> ident, attrs |-> attrs, fields |-> fields]

\* ---------------------------------------------------------- diagnostics
NotAnEnum == "AutoError only supports enums"
NamedFieldsUnsupported == "Named fields not supported"
DuplicateDirective == "Duplicate occurence of auto_error attribute"
IncorrectArguments == "Incorrect auto_error arguments"
BadErrType == "Incorrect value for err, expected bool"
BadFormatStrType == "Incorrect value for format_str, expected string"
BadMakeFromType == "Incorrect value for make_from, expected bool"
UnknownDirectiveOption == "Unknown parameter"
ErrArityMismatch == "Wrapped errors should have exactly 1 argument"
FromArityMismatch == "Can only derive from for variants with 1 field"
MetaParseError == "syn: attribute does not parse as a meta item"

\* ------------------------------------------------------ infer_is_error
\* infer_is_error without its field count check: looks at the first field.
infer_is_error_first_field(variant) ==
    IF variant.fields.style = "Named" THEN FALSE
    ELSE IF Len(variant.fields.list) = 0 THEN FALSE
    ELSE LET field == variant.fields.list[1] IN
         IF field.ty.kind = "Path"
         THEN IF Len(field.ty.segments) = 0 THEN FALSE
              ELSE field.ty.segments[Len(field.ty.segments)] = "Error"
         ELSE FALSE

\* infer_is_error with path.is_ident("Error") for the last segment test.
infer_is_error_is_ident(variant) ==
    IF variant.fields.style = "Named" THEN FALSE
    ELSE IF Len(variant.fields.list) # 1 THEN FALSE
    ELSE LET field == variant.fields.list[1] IN
         field.ty.kind = "Path" /\ field.ty.segments = <<"Error">>

infer_is_error(variant) ==
    IF variant.fields.style = "Named" THEN FALSE
    ELSE IF Len(variant.fields.list) # 1 THEN FALSE
    ELSE LET field == variant.fields.list[1] IN
         IF field.ty.kind = "Path"
         THEN IF Len(field.ty.segments) = 0 THEN FALSE
              ELSE field.ty.segments[Len(field.ty.segments)] = "Error"
         ELSE FALSE

\* ---------------------------------------------------- infer_format_str
RECURSIVE FormatLoop(_, _, _)
FormatLoop(remaining, acc, first) ==
    IF remaining = 0 THEN acc
    ELSE IF first THEN FormatLoop(remaining - 1, acc \o <<"{", "}">>, FALSE)
    ELSE FormatLoop(remaining - 1, acc \o <<" ", "{", "}">>, first)

\* infer_format_str without the first flag: every placeholder gets its space.
infer_format_str_no_first(variant) == FormatLoop(Len(variant.fields.list), <<>>, FALSE)

infer_format_str(variant) == FormatLoop(Len(variant.fields.list), <<>>, TRUE)

\* ------------------------------------------------------- parse_variant
\* struct ErrorVariant
ErrorVariant(err, make_from, format_str, variant) ==
    [err |-> err, make_from |-> make_from, format_str |-> format_str, variant |-> variant]

\* Result<ErrorVariant, TokenStream>; resolved tells whether the directive
\* was merged into value before the function returned.
Ok(value) == [tag |-> "Ok", diag |-> "", resolved |-> TRUE, value |-> value]
Err(diag, resolved, value) == [tag |-> "Err", diag |-> diag, resolved |-> resolved, value |-> value]

\* ScanAttrs without the test for an earlier auto_error attribute: the last
\* one is taken.
RECURSIVE ScanAttrsLastWins(_, _, _)
ScanAttrsLastWins(attrs, k, attr) ==
    IF k > Len(attrs) THEN attr
    ELSE IF attrs[k].path = "auto_error"
         THEN ScanAttrsLastWins(attrs, k + 1, k)
         ELSE ScanAttrsLastWins(attrs, k + 1, attr)

\* The scan for the auto_error attribute: 0 when there is none, the index of
\* the attribute when there is one, -1 at the second one.
RECURSIVE ScanAttrs(_, _, _)
ScanAttrs(attrs, k, attr) ==
    IF k > Len(attrs) THEN attr
    ELSE IF attrs[k].path = "auto_error"
         THEN IF attr # 0 THEN -1 ELSE ScanAttrs(attrs, k + 1, k)
         ELSE ScanAttrs(attrs, k + 1, attr)

\* ApplyArgs with no final else: an option of another name is passed over.
RECURSIVE ApplyArgsIgnoreUnknown(_, _, _)
ApplyArgsIgnoreUnknown(nested, k, res) ==
    IF k > Len(nested) THEN Ok(res)
    ELSE LET arg == nested[k] IN
         IF arg.form = "Lit" THEN Err(IncorrectArguments, FALSE, res)
         ELSE IF arg.form # "NameValue" THEN Err(IncorrectArguments, FALSE, res)
         ELSE IF arg.name = "err"
              THEN IF arg.lit.kind = "Bool"
                   THEN ApplyArgsIgnoreUnknown(nested, k + 1, [res EXCEPT !.err = arg.lit.bool])
                   ELSE Err(BadErrType, FALSE, res)
         ELSE IF arg.name = "format_str"
              THEN IF arg.lit.kind = "Str"
                   THEN ApplyArgsIgnoreUnknown(nested, k + 1,
                                               [res EXCEPT !.format_str = arg.lit.str])
                   ELSE Err(BadFormatStrType, FALSE, res)
         ELSE IF arg.name = "make_from"
              THEN IF arg.lit.kind = "Bool"
                   THEN ApplyArgsIgnoreUnknown(nested, k + 1,
                                               [res EXCEPT !.make_from = arg.lit.bool])
                   ELSE Err(BadMakeFromType, FALSE, res)
         ELSE ApplyArgsIgnoreUnknown(nested, k + 1, res)

\* The loop over the directive's options, in the order written.
RECURSIVE ApplyArgs(_, _, _)
ApplyArgs(nested, k, res) ==
    IF k > Len(nested) THEN Ok(res)
    ELSE LET arg == nested[k] IN
         IF arg.form = "Lit" THEN Err(IncorrectArguments, FALSE, res)
         ELSE IF arg.form # "NameValue" THEN Err(IncorrectArguments, FALSE, res)
         ELSE IF arg.name = "err"
              THEN IF arg.lit.kind = "Bool"
                   THEN ApplyArgs(nested, k + 1, [res EXCEPT !.err = arg.lit.bool])
                   ELSE Err(BadErrType, FALSE, res)
         ELSE IF arg.name = "format_str"
              THEN IF arg.lit.kind = "Str"
                   THEN ApplyArgs(nested, k + 1, [res EXCEPT !.format_str = arg.lit.str])
                   ELSE Err(BadFormatStrType, FALSE, res)
         ELSE IF arg.name = "make_from"
              THEN IF arg.lit.kind = "Bool"
                   THEN ApplyArgs(nested, k + 1, [res EXCEPT !.make_from = arg.lit.bool])
                   ELSE Err(BadMakeFromType, FALSE, res)
         ELSE Err(UnknownDirectiveOption, FALSE, res)

\* ApplyDirective replacing the policy wholesale: a directive starts from
\* err = false, make_from = false instead of the inferred defaults.
ApplyDirectiveWholesale(variant, attr, res) ==
    IF attr = 0 THEN Ok(res)
    ELSE LET a == variant.attrs[attr] IN
         IF a.meta = "Err" THEN Err(MetaParseError, FALSE, res)
         ELSE IF a.meta # "List" THEN Err(IncorrectArguments, FALSE, res)
         ELSE ApplyArgs(a.nested, 1, [res EXCEPT !.err = FALSE, !.make_from = FALSE])

\* The merge of the directive, if any, over the inferred defaults.
ApplyDirective(variant, attr, res) ==
    IF attr = 0 THEN Ok(res)
    ELSE LET a == variant.attrs[attr] IN
         IF a.meta = "Err" THEN Err(MetaParseError, FALSE, res)
         ELSE IF a.meta # "List" THEN Err(IncorrectArguments, FALSE, res)
         ELSE ApplyArgs(a.nested, 1, res)

\* CheckArity without the make_from check.
CheckArityErrOnly(res) ==
    IF res.err /\ Len(res.variant.fields.list) # 1
    THEN Err(ErrArityMismatch, TRUE, res)
    ELSE Ok(res)

\* The field count checks that end parse_variant.
CheckArity(res) ==
    IF res.err /\ Len(res.variant.fields.list) # 1
    THEN Err(ErrArityMismatch, TRUE, res)
    ELSE IF res.make_from /\ Len(res.variant.fields.list) # 1
    THEN Err(FromArityMismatch, TRUE, res)
    ELSE Ok(res)

\* parse_variant up to the end of the directive loop: the shape check, the
\* scan for the directive and its merge over the inferred defaults.
Analyze(variant) ==
    LET unresolved == ErrorVariant(FALSE, FALSE, <<>>, variant) IN
    IF variant.fields.style = "Named"
    THEN Err(NamedFieldsUnsupported, FALSE, unresolved)
    ELSE LET attr == ScanAttrs(variant.attrs, 1, 0) IN
         IF attr = -1 THEN Err(DuplicateDirective, FALSE, unresolved)
         ELSE ApplyDirective(variant, attr,
                             ErrorVariant(infer_is_error(variant),
                                          infer_is_error(variant),
                                          infer_format_str(variant),
                                          variant))

\* parse_variant without the field count checks at its end.
parse_variant_no_arity(variant) == Analyze(variant)

parse_variant(variant) ==
    LET analyzed == Analyze(variant) IN
    IF analyzed.tag = "Err" THEN analyzed ELSE CheckArity(analyzed.value)

\* -------------------------------------------------------------- derive
\* The items of the returned token stream.
CompileError(msg) == [item |-> "compile_error", msg |-> msg]
Panic(msg) == [item |-> "panic", msg |-> msg]
FromImpl(sourcetype, error_ident, curvar) ==
    [item |-> "impl From", sourcetype |-> sourcetype, for |-> error_ident, curvar |-> curvar]
DisplayImpl(error_ident, branches) ==
    [item |-> "impl Display", for |-> error_ident, branches |-> branches]
ErrorImpl(error_ident, branches) ==
    [item |-> "impl Error", for |-> error_ident, branches |-> branches]

\* The values filter_map-style interpolation keeps: #(#x)* drops None.
RECURSIVE Flatten(_)
Flatten(opts) ==
    IF opts = <<>> THEN <<>>
    ELSE (IF Head(opts).some THEN <<Head(opts).value>> ELSE <<>>) \o Flatten(Tail(opts))

Some(v) == [some |-> TRUE, value |-> v]
None(v) == [some |-> FALSE, value |-> v]

from_impls(error_ident, variants) ==
    [k \in 1..Len(variants) |->
        LET var == variants[k] IN
        IF ~var.make_from THEN None(FromImpl(RefStr, error_ident, var.variant.ident))
        ELSE Some(FromImpl(var.variant.fields.list[1].ty, error_ident, var.variant.ident))]

Param(i) == <<"f", i>>

display_branches(variants) ==
    [k \in 1..Len(variants) |->
        LET var == variants[k] IN
        [curvar |-> var.variant.ident,
         pattern |-> var.variant.fields.style,
         params |-> [i \in 1..Len(var.variant.fields.list) |-> Param(i - 1)],
         format_str |-> var.format_str]]

\* source_branches keyed on make_from instead of err.
source_branches_by_make_from(variants) ==
    [k \in 1..Len(variants) |->
        LET var == variants[k] IN
        IF ~var.make_from THEN None([curvar |-> var.variant.ident])
        ELSE Some([curvar |-> var.variant.ident])]

source_branches(variants) ==
    [k \in 1..Len(variants) |->
        LET var == variants[k] IN
        IF ~var.err THEN None([curvar |-> var.variant.ident])
        ELSE Some([curvar |-> var.variant.ident])]

\* What the emitter's unwrap() and panic!() need to go through.
EmitterPanics(variants) ==
    \E k \in 1..Len(variants) :
        \/ variants[k].make_from /\ Len(variants[k].variant.fields.list) = 0
        \/ variants[k].variant.fields.style = "Named"

Output(error_ident, variants) ==
    IF EmitterPanics(variants) THEN <<Panic("Internal error (AutoError)")>>
    ELSE Flatten(from_impls(error_ident, variants))
         \o <<DisplayImpl(error_ident, display_branches(variants))>>
         \o <<ErrorImpl(error_ident, Flatten(source_branches(variants)))>>

\* --------------------------------------------- the generated code, when run
\* format_args!(format_str, params...): every "{}" takes the next argument.
RECURSIVE FormatArgs(_, _)
FormatArgs(format_str, args) ==
    IF format_str = <<>> THEN <<>>
    ELSE IF Len(format_str) >= 2 /\ format_str[1] = "{" /\ format_str[2] = "}"
         THEN (IF args = <<>> THEN <<"?">> ELSE Head(args))
              \o FormatArgs(SubSeq(format_str, 3, Len(format_str)),
                            IF args = <<>> THEN args ELSE Tail(args))
         ELSE <<format_str[1]>> \o FormatArgs(Tail(format_str), args)

\* Display::fmt of the value curvar(values...) under the generated impl.
Rendered(branches, curvar, values) ==
    LET k == CHOOSE k \in 1..Len(branches) : branches[k].curvar = curvar IN
    FormatArgs(branches[k].format_str, values)

\* Error::source of a value of variant curvar: is it Some(e)?
HasSource(branches, curvar) ==
    \E k \in 1..Len(branches) : branches[k].curvar = curvar

\* ------------------------------------------------------------- the inputs
Idents == <<"A", "B", "C", "D", "E", "F">>

DeriveInput(data, variants) ==
    [data |-> data, ident |-> "Error",
     variants |-> [k \in 1..Len(variants) |->
                      Variant(Idents[k], variants[k].attrs, variants[k].fields)]]

SeqsUpTo(S, n) == UNION {[1..k -> S] : k \in 0..n}

CustomFormat == <<"E", "r", "r", "o", "r", " ", "{", "}">>
NotFoundFormat == <<"N", "o", "t", " ", "f", "o", "u", "n", "d">>

TypeSet == {IoError, NotError, RefStr}

FieldsSet ==
    {Fields("Unit", <<>>)}
    \cup {Fields("Unnamed", tys) : tys \in SeqsUpTo(TypeSet, MaxFields)}
    \cup {Fields("Named", tys) : tys \in SeqsUpTo(TypeSet, 1)}

BasicAttrs ==
    {DocAttr,
     Attribute("auto_error", "Path", <<>>),
     Attribute("auto_error", "Err", <<>>),
     AutoError(<<>>),
     AutoError(<<NameValue("err", LitBool(TRUE))>>),
     AutoError(<<NameValue("make_from", LitBool(TRUE))>>),
     AutoError(<<NameValue("format_str", LitStr(CustomFormat))>>),
     AutoError(<<NameValue("bogus", LitBool(TRUE))>>)}

\* one variant of any shape, with up to MaxAttrs attributes
ShapeInputs ==
    {DeriveInput("Enum", <<Variant("", attrs, fields)>>) :
        attrs \in SeqsUpTo(BasicAttrs, MaxAttrs), fields \in FieldsSet}

ArgSet ==
    {NameValue("err", LitBool(TRUE)), NameValue("err", LitBool(FALSE)),
     NameValue("err", LitStr(CustomFormat)),
     NameValue("make_from", LitBool(TRUE)), NameValue("make_from", LitBool(FALSE)),
     NameValue("make_from", LitInt),
     NameValue("format_str", LitStr(CustomFormat)), NameValue("format_str", LitBool(TRUE)),
     NameValue("bogus", LitBool(TRUE)),
     MetaPath("err"), NestedLit(LitStr(CustomFormat))}

DirectiveFields ==
    {Fields("Unnamed", <<IoError>>), Fields("Unnamed", <<NotError>>),
     Fields("Unnamed", <<StringTy, IsizeTy>>)}

\* one variant with one directive of up to MaxArgs options
DirectiveInputs ==
    {DeriveInput("Enum", <<Variant("", <<AutoError(nested)>>, fields)>>) :
        nested \in SeqsUpTo(ArgSet, MaxArgs), fields \in DirectiveFields}

VariantSet ==
    {Variant("", <<>>, Fields("Unnamed", <<IoError>>)),
     Variant("", <<>>, Fields("Unnamed", <<FmtError>>)),
     Variant("", <<>>, Fields("Unnamed", <<NotError>>)),
     Variant("", <<>>, Fields("Unnamed", <<StringTy, IsizeTy>>)),
     Variant("", <<>>, Fields("Unnamed", <<>>)),
     Variant("", <<>>, Fields("Unit", <<>>)),
     Variant("", <<AutoError(<<NameValue("format_str", LitStr(NotFoundFormat))>>)>>,
             Fields("Unit", <<>>)),
     Variant("", <<AutoError(<<NameValue("err", LitBool(FALSE)),
                               NameValue("make_from", LitBool(FALSE)),
                               NameValue("format_str", LitStr(CustomFormat))>>)>>,
             Fields("Unnamed", <<IoError>>)),
     Variant("", <<AutoError(<<NameValue("err", LitBool(TRUE))>>)>>,
             Fields("Unnamed", <<NotError>>)),
     Variant("", <<AutoError(<<NameValue("make_from", LitBool(TRUE))>>)>>,
             Fields("Unnamed", <<NotError>>)),
     Variant("", <<AutoError(<<NameValue("err", LitBool(TRUE))>>)>>, Fields("Unit", <<>>)),
     Variant("", <<AutoError(<<NameValue("make_from", LitBool(TRUE))>>)>>,
             Fields("Unnamed", <<StringTy, IsizeTy>>)),
     Variant("", <<>>, Fields("Named", <<IoError>>)),
     Variant("", <<AutoError(<<NameValue("err", LitBool(TRUE))>>), AutoError(<<>>)>>,
             Fields("Unnamed", <<IoError>>)),
     Variant("", <<AutoError(<<NameValue("bogus", LitBool(TRUE))>>)>>,
             Fields("Unnamed", <<NotError>>)),
     Variant("", <<AutoError(<<NameValue("err", LitStr(CustomFormat))>>)>>,
             Fields("Unnamed", <<IoError>>))}

\* enums of up to MaxVariants variants
EnumInputs == {DeriveInput("Enum", variants) : variants \in SeqsUpTo(VariantSet, MaxVariants)}

\* items that are no enum
OtherInputs == {DeriveInput("Struct", <<>>), DeriveInput("Union", <<>>)}

Inputs == ShapeInputs \cup DirectiveInputs \cup EnumInputs \cup OtherInputs

\* ------------------------------------------------------- the state machine
NoVariant == Variant("", <<>>, Fields("Unit", <<>>))
NoResult == [tag |-> "None", diag |-> "", resolved |-> FALSE,
             value |-> ErrorVariant(FALSE, FALSE, <<>>, NoVariant)]

Init ==
    /\ input \in Inputs
    /\ pc = "start"
    /\ idx = 1
    /\ error_variants = <<>>
    /\ result = NoResult
    /\ ret = <<>>

\* derive, up to the enum check
ParseInput ==
    /\ pc = "start"
    /\ IF input.data = "Enum"
       THEN pc' = "collect" /\ ret' = ret
       ELSE pc' = "done" /\ ret' = <<CompileError(NotAnEnum)>>
    /\ UNCHANGED <<input, idx, error_variants, result>>

\* CollectVariant as filter_map(|v| parse_variant(v).ok()): a variant that
\* fails is left out and the iteration goes on.
CollectVariantSkip ==
    /\ pc = "collect"
    /\ idx <= Len(input.variants)
    /\ result' = parse_variant(input.variants[idx])
    /\ error_variants' = IF result'.tag = "Ok"
                         THEN Append(error_variants, result'.value)
                         ELSE error_variants
    /\ idx' = idx + 1
    /\ UNCHANGED <<input, pc, ret>>

\* one step of variants.iter().map(parse_variant).collect(): the first Err
\* ends the iteration and is returned
CollectVariant ==
    /\ pc = "collect"
    /\ idx <= Len(input.variants)
    /\ result' = parse_variant(input.variants[idx])
    /\ IF result'.tag = "Ok"
       THEN /\ error_variants' = Append(error_variants, result'.value)
            /\ idx' = idx + 1
            /\ UNCHANGED <<pc, ret>>
       ELSE /\ pc' = "done"
            /\ ret' = <<CompileError(result'.diag)>>
            /\ UNCHANGED <<idx, error_variants>>
    /\ UNCHANGED input

\* the three passes over error_variants and the returned quote!
Emit ==
    /\ pc = "collect"
    /\ idx > Len(input.variants)
    /\ ret' = Output(input.ident, error_variants)
    /\ pc' = "done"
    /\ UNCHANGED <<input, idx, error_variants, result>>

Next == ParseInput \/ CollectVariant \/ Emit

Spec == Init /\ [][Next]_vars

\* ===================================================================
\* Properties
\* ===================================================================
\* The variant the last parse_variant call was given, and its outcome.
Processed == result.tag # "None"
Cur == result.value.variant
Policy == result.value

IsDirective(a) == a.path = "auto_error"
Directives(v) == SelectSeq(v.attrs, IsDirective)
FieldCount(v) == Len(v.fields.list)

\* exactly one unnamed field, whose type is a path ending in the segment Error
SoleFieldNamedError(v) ==
    /\ v.fields.style = "Unnamed"
    /\ FieldCount(v) = 1
    /\ v.fields.list[1].ty.kind = "Path"
    /\ v.fields.list[1].ty.segments # <<>>
    /\ LET segs == v.fields.list[1].ty.segments IN segs[Len(segs)] = "Error"

\* s is n "{}" placeholders joined by single spaces
IsPlaceholders(s, n) ==
    /\ Len(s) = IF n = 0 THEN 0 ELSE 3 * n - 1
    /\ \A k \in 1..Len(s) :
          s[k] = IF k % 3 = 1 THEN "{" ELSE IF k % 3 = 2 THEN "}" ELSE " "

\* the last value a directive gives option name, if it gives one
Sets(d, name) == \E k \in 1..Len(d.nested) : d.nested[k].name = name
LastOf(d, name) ==
    LET k == CHOOSE k \in 1..Len(d.nested) :
                 /\ d.nested[k].name = name
                 /\ \A j \in (k + 1)..Len(d.nested) : d.nested[j].name # name
    IN d.nested[k].lit

Rejected(diag) == pc = "done" /\ ret = <<CompileError(diag)>>

\* C1: a variant without a directive gets err = make_from = TRUE exactly when
\* it has one unnamed field whose type path ends in the segment "Error";
\* unit variants, variants of zero or several fields, other last segments and
\* non-path types get err = make_from = FALSE (and are accepted as such).
C1_InferredDefault ==
    (Processed /\ Directives(Cur) = <<>> /\ Cur.fields.style # "Named") =>
        /\ result.tag = "Ok"
        /\ Policy.err = SoleFieldNamedError(Cur)
        /\ Policy.make_from = SoleFieldNamedError(Cur)

C1_Witness ==
    /\ Processed /\ Directives(Cur) = <<>>
    /\ Cur.fields = Fields("Unnamed", <<IoError>>)
    /\ Policy.err /\ Policy.make_from

\* C2: with exactly one directive, each of err, make_from and format_str of
\* the resolved policy is the directive's value when the directive sets the
\* option and the inferred default when it does not.
C2_FieldwiseOverride ==
    (Processed /\ result.resolved /\ Len(Directives(Cur)) = 1) =>
        LET d == Directives(Cur)[1] IN
        /\ Policy.err = IF Sets(d, "err") THEN LastOf(d, "err").bool
                        ELSE SoleFieldNamedError(Cur)
        /\ Policy.make_from = IF Sets(d, "make_from") THEN LastOf(d, "make_from").bool
                              ELSE SoleFieldNamedError(Cur)
        /\ IF Sets(d, "format_str") THEN Policy.format_str = LastOf(d, "format_str").str
           ELSE IsPlaceholders(Policy.format_str, FieldCount(Cur))

C2_Witness ==
    /\ Processed /\ result.resolved
    /\ Cur.fields = Fields("Unnamed", <<IoError>>)
    /\ Directives(Cur) = <<AutoError(<<NameValue("err", LitBool(FALSE))>>)>>
    /\ ~Policy.err /\ Policy.make_from /\ Policy.format_str = <<"{", "}">>

\* C3: a resolved policy with err or make_from on a variant whose field count
\* is not 1 ends the expansion with the arity diagnostic (the one for err when
\* err is set, else the one for make_from); so every variant handed to the
\* emitter with err or make_from has exactly one field.
C3_ArityRejected ==
    /\ (Processed /\ result.resolved /\ FieldCount(Cur) # 1
            /\ (Policy.err \/ Policy.make_from)) =>
          /\ result.tag = "Err"
          /\ Rejected(IF Policy.err THEN ErrArityMismatch ELSE FromArityMismatch)
    /\ \A k \in 1..Len(error_variants) :
          (error_variants[k].err \/ error_variants[k].make_from) =>
              FieldCount(error_variants[k].variant) = 1

C3_Witness ==
    /\ Processed /\ result.resolved
    /\ FieldCount(Cur) = 2 /\ ~Policy.err /\ Policy.make_from
    /\ Rejected(FromArityMismatch)

\* The expansion ended with generated code.
Accepted == pc = "done" /\ \E k \in 1..Len(ret) : ret[k].item = "impl Display"

ItemsOf(kind) == LET IsKind(it) == it.item = kind IN SelectSeq(ret, IsKind)
DisplayBranches == ItemsOf("impl Display")[1].branches
SourceBranches == ItemsOf("impl Error")[1].branches

NoCustomFormat(v) ==
    \A k \in 1..Len(v.attrs) : IsDirective(v.attrs[k]) => ~Sets(v.attrs[k], "format_str")

\* C4: a variant with two or more auto_error attributes ends the expansion
\* with one diagnostic and no generated item, whatever the attributes hold;
\* for a variant of unit or unnamed shape (the shapes a variant has in the
\* data model) the diagnostic is the duplicate-directive one.
C4_DuplicateRejected ==
    (Processed /\ Len(Directives(Cur)) >= 2) =>
        /\ result.tag = "Err"
        /\ ~result.resolved
        /\ pc = "done" /\ Len(ret) = 1 /\ ret[1].item = "compile_error"
        /\ Cur.fields.style # "Named" => Rejected(DuplicateDirective)

C4_Witness ==
    /\ Processed /\ Cur.fields.style = "Unnamed"
    /\ Directives(Cur) = <<AutoError(<<NameValue("bogus", LitBool(TRUE))>>),
                           Attribute("auto_error", "Err", <<>>)>>
    /\ Rejected(DuplicateDirective)

C6_AllOrNothing ==
    pc = "done" =>
        /\ \/ Len(ret) = 1 /\ ret[1].item = "compile_error"
           \/ /\ \A k \in 1..Len(ret) :
                     ret[k].item \in {"impl From", "impl Display", "impl Error"}
              /\ Len(ItemsOf("impl Display")) = 1
              /\ Len(ItemsOf("impl Error")) = 1
              /\ Len(DisplayBranches) = Len(input.variants)
        /\ (\E k \in 1..Len(input.variants) : parse_variant(input.variants[k]).tag = "Err")
              => Len(ret) = 1 /\ ret[1].item = "compile_error"

C6_Witness ==
    /\ pc = "done"
    /\ Len(input.variants) = 2
    /\ parse_variant(input.variants[1]).tag = "Ok"
    /\ parse_variant(input.variants[1]).value.make_from
    /\ parse_variant(input.variants[2]).tag = "Err"
    /\ Len(ret) = 1 /\ ret[1].item = "compile_error"

\* The enum {A(io::Error), B(fmt::Error)} without directives.
C7Input ==
    DeriveInput("Enum", <<Variant("", <<>>, Fields("Unnamed", <<IoError>>)),
                          Variant("", <<>>, Fields("Unnamed", <<FmtError>>))>>)

FieldText == <<"t", "e", "s", "t">>

HasFrom(ty, curvar) == \E k \in 1..Len(ret) : ret[k] = FromImpl(ty, input.ident, curvar)

\* C7 as stated: for {A(io::Error), B(fmt::Error)} A gets the conversion and
\* the cause, B gets neither, and both render as their field's text.
C7_Original ==
    (pc = "done" /\ input = C7Input) =>
        /\ Accepted
        /\ HasFrom(IoError, "A") /\ HasSource(SourceBranches, "A")
        /\ ~HasFrom(FmtError, "B") /\ ~HasSource(SourceBranches, "B")
        /\ Rendered(DisplayBranches, "A", <<FieldText>>) = FieldText
        /\ Rendered(DisplayBranches, "B", <<FieldText>>) = FieldText

\* C7, amended: for {A(io::Error), B(fmt::Error)} without directives both A
\* and B get the cause and a conversion from their field type (both types end
\* in the segment Error), and both render as their field's text.
C7_BothInferred ==
    (pc = "done" /\ input = C7Input) =>
        /\ Accepted
        /\ HasFrom(IoError, "A") /\ HasSource(SourceBranches, "A")
        /\ HasFrom(FmtError, "B") /\ HasSource(SourceBranches, "B")
        /\ Rendered(DisplayBranches, "A", <<FieldText>>) = FieldText
        /\ Rendered(DisplayBranches, "B", <<FieldText>>) = FieldText

C7_Witness == pc = "done" /\ input = C7Input /\ Len(ret) = 4

\* What the option loop makes of one option: "" when it is a valid one.
DiagFor(arg) ==
    IF arg.form # "NameValue" THEN IncorrectArguments
    ELSE IF arg.name \in {"err", "make_from"}
         THEN IF arg.lit.kind = "Bool" THEN ""
              ELSE IF arg.name = "err" THEN BadErrType ELSE BadMakeFromType
    ELSE IF arg.name = "format_str"
         THEN IF arg.lit.kind = "Str" THEN "" ELSE BadFormatStrType
    ELSE UnknownDirectiveOption

\* C8: a directive (the one directive of a variant of unit or unnamed shape)
\* with an option of unknown name is rejected as UnknownDirectiveOption, one
\* with a wrongly typed value by the diagnostic naming the option, whatever the
\* other options are; the first offending option in the order written decides.
C8_FirstOffendingOption ==
    (Processed /\ Len(Directives(Cur)) = 1) =>
        LET d == Directives(Cur)[1]
            bad == {k \in 1..Len(d.nested) : DiagFor(d.nested[k]) # ""}
        IN (d.meta = "List" /\ bad # {}) =>
               LET first == CHOOSE k \in bad : \A j \in bad : k <= j IN
               /\ result.tag = "Err"
               /\ ~result.resolved
               /\ pc = "done" /\ Len(ret) = 1 /\ ret[1].item = "compile_error"
               /\ Cur.fields.style # "Named" => Rejected(DiagFor(d.nested[first]))

C8_Witness ==
    /\ Processed /\ Len(Directives(Cur)) = 1
    /\ LET d == Directives(Cur)[1] IN
       /\ Len(d.nested) >= 2
       /\ d.nested[1] = NameValue("err", LitBool(TRUE))
       /\ d.nested[2] = NameValue("bogus", LitBool(TRUE))
    /\ Rejected(UnknownDirectiveOption)

\* C9: the output of an accepted declaration has a conversion from the sole
\* field type of exactly the variants with make_from, a cause arm for exactly
\* the variants with err, and one rendering arm per variant in declaration
\* order; err and make_from act independently.
C9_EmittedPerPolicy ==
    Accepted =>
        /\ Len(error_variants) = Len(input.variants)
        /\ \A k \in 1..Len(error_variants) :
              LET ev == error_variants[k] IN
              /\ ev.variant = input.variants[k]
              /\ ev.make_from <=>
                    (FieldCount(ev.variant) >= 1
                        /\ HasFrom(ev.variant.fields.list[1].ty, ev.variant.ident))
              /\ ev.make_from <=>
                    (\E j \in 1..Len(ret) :
                        ret[j].item = "impl From" /\ ret[j].curvar = ev.variant.ident)
              /\ ev.err <=> HasSource(SourceBranches, ev.variant.ident)
              /\ DisplayBranches[k].curvar = ev.variant.ident
              /\ DisplayBranches[k].format_str = ev.format_str
              /\ Len(DisplayBranches[k].params) = FieldCount(ev.variant)
        /\ Len(DisplayBranches) = Len(input.variants)
        /\ Len(ItemsOf("impl From")) =
              Cardinality({k \in 1..Len(error_variants) : error_variants[k].make_from})
        /\ Len(SourceBranches) =
              Cardinality({k \in 1..Len(error_variants) : error_variants[k].err})

C9_Witness ==
    /\ Accepted
    /\ \E k, j \in 1..Len(error_variants) :
          /\ error_variants[k].make_from /\ ~error_variants[k].err
          /\ HasFrom(NotError, error_variants[k].variant.ident)
          /\ ~HasSource(SourceBranches, error_variants[k].variant.ident)
          /\ error_variants[j].err /\ ~error_variants[j].make_from
          /\ HasSource(SourceBranches, error_variants[j].variant.ident)
          /\ ~HasFrom(NotError, error_variants[j].variant.ident)

\* The two stages of one variant's parse_variant call.
AnalyzerFails(v) == Analyze(v).tag = "Err"
ArityViolation(v) == Analyze(v).tag = "Ok" /\ CheckArity(Analyze(v).value).tag = "Err"
DiagOf(v) == IF AnalyzerFails(v) THEN Analyze(v).diag ELSE CheckArity(Analyze(v).value).diag

AnalyzerDiags ==
    {NamedFieldsUnsupported, DuplicateDirective, IncorrectArguments, BadErrType,
     BadFormatStrType, BadMakeFromType, UnknownDirectiveOption, MetaParseError}

\* C10 as stated: the arity checks run after every variant's policy is
\* resolved, so a declaration with an arity violation in an earlier variant
\* and an Analyzer failure in a later one is reported with the latter.
C10_Original ==
    (pc = "done"
        /\ \E i, j \in 1..Len(input.variants) :
              i < j /\ ArityViolation(input.variants[i]) /\ AnalyzerFails(input.variants[j]))
    => (Len(ret) = 1 /\ ret[1].item = "compile_error" /\ ret[1].msg \in AnalyzerDiags)

\* C10, amended: the arity checks of a variant run at the end of its own
\* parse_variant call, before any later variant is looked at; the expansion
\* reports the diagnostic of the first variant in declaration order that fails
\* either stage, so an arity violation in an earlier variant is reported even
\* when a later variant fails the Analyzer.
C10_FirstFailingVariant ==
    (pc = "done" /\ input.data = "Enum") =>
        LET bad == {k \in 1..Len(input.variants) :
                        AnalyzerFails(input.variants[k]) \/ ArityViolation(input.variants[k])}
        IN bad # {} =>
               LET first == CHOOSE k \in bad : \A j \in bad : k <= j IN
               /\ ret = <<CompileError(DiagOf(input.variants[first]))>>
               /\ idx = first
               /\ Len(error_variants) = first - 1

C10_Witness ==
    /\ pc = "done"
    /\ Len(input.variants) = 2
    /\ ArityViolation(input.variants[1])
    /\ AnalyzerFails(input.variants[2])
    /\ ret = <<CompileError(ErrArityMismatch)>>

====
